---- MODULE Spec2Model ----
(***************************************************************************)
(* Model of dm-rust (src/src/main.rs): the controller loop (run_loop,      *)
(* handle_key), the App state, the mpsc channel, the scan and delete       *)
(* worker threads, the timer threads and the file system they act on.      *)
(*                                                                         *)
(* Paths are sequences of names: <<>> is "/", <<"h">> is "/h".  The wall   *)
(* clock is not modelled: the "{hour}:{minute}" prefix and the elapsed     *)
(* seconds of the scan log lines are left out of the line, and             *)
(* last_scan_started is Some/None.  A u64 or u128 value is a sequence of   *)
(* 16-bit limbs, least significant first.  remove_dir_all removes one      *)
(* entry in a step, and compute_stats_for_dir reads one directory or the   *)
(* metadata of one entry in a step.                                        *)
(***************************************************************************)
EXTENDS Integers, Sequences, FiniteSets, TLC

VARIABLES
    cwd,                \* App.cwd
    selected,           \* App.selected (0-based index)
    entries,            \* App.entries (1-based sequence of DirStats)
    messages,           \* App.messages (VecDeque, front first)
    last_error,         \* App.last_error: <<>> is None, <<e>> is Some(e)
    last_scan_started,  \* App.last_scan_started: TRUE is Some(instant)
    is_scanning,        \* App.is_scanning
    mode,               \* App.mode
    chan,               \* the mpsc channel (tx, rx): messages in flight
    ctl,                \* position of the main thread: "main" before
                        \* run_loop, then "poll", "drain" or "quit"
    key,                \* the event read by event::read() in this cycle
    scans,              \* live threads of spawn_scan_thread
    deletes,            \* threads of spawn_delete_thread (finished ones kept)
    fs,                 \* the disk: each directory that exists |-> the
                        \* indexes in Contents of its entries that exist
    ninputs,            \* key events read and timer messages sent so far
    nlogged,            \* history: number of calls of App::log
    applied,            \* history: {root of the scan last applied}
    acc,                \* compute_stats_for_dir alone: its three counters
    seen                \* history: what the walk has yielded so far

vars == <<cwd, selected, entries, messages, last_error, last_scan_started,
          is_scanning, mode, chan, ctl, key, scans, deletes, fs,
          ninputs, nlogged, applied, acc, seen>>

app_vars == <<cwd, selected, entries, messages, last_error,
              last_scan_started, is_scanning, mode, nlogged, applied>>

----------------------------------------------------------------------------
(* Bounds of the model *)

MaxInputs == 3
MaxLogged == 203
MaxWalk == 4

(* Program constants *)

\* VecDeque::with_capacity(200): the capacity the log is created with.
LogCapacity == 200

----------------------------------------------------------------------------
(* u64 and u128 *)

\* The base of a limb.
Base == 65536

\* The number n < 2^31 in w limbs.
Limbs(n, w) ==
    [i \in 1..w |-> IF i = 1 THEN n % Base ELSE IF i = 2 THEN n \div Base ELSE 0]

u64(n) == Limbs(n, 4)
u128(n) == Limbs(n, 8)

MaxOf(w) == [i \in 1..w |-> Base - 1]

\* u64::MAX = 2^64 - 1 and u128::MAX = 2^128 - 1
U64Max == MaxOf(4)
U128Max == MaxOf(8)

\* x as u128, for x a u64
as_u128(x) == x \o <<0, 0, 0, 0>>

\* The carry into limb i of a + b.
RECURSIVE carry(_, _, _)
carry(a, b, i) ==
    IF i = 1 THEN 0 ELSE (a[i - 1] + b[i - 1] + carry(a, b, i - 1)) \div Base

wrapping_add(a, b) == [i \in DOMAIN a |-> (a[i] + b[i] + carry(a, b, i)) % Base]

\* Bug variant: the sum wraps around.
saturating_add_wrapping(a, b) == wrapping_add(a, b)

\* a.saturating_add(b), for a and b of the same type
saturating_add(a, b) ==
    IF carry(a, b, Len(a) + 1) = 1 THEN MaxOf(Len(a)) ELSE wrapping_add(a, b)

\* a < b (Ord::cmp gives Less)
Less(a, b) ==
    \E i \in DOMAIN a : a[i] < b[i] /\ \A j \in DOMAIN a : j > i => a[j] = b[j]

----------------------------------------------------------------------------
(* The file system the program is started on *)

StartDir == <<"h">>

AllDirs ==
    { <<>>, <<"h">>, <<"h", "X">>, <<"h", "Y">>, <<"h", "X", "s">> }

\* Entries of a directory that are not directories, n a u64.
\* md tells whether entry.metadata() is Ok.
File(n) == [type |-> "file", len |-> n, md |-> TRUE]
Symlink == [type |-> "symlink", len |-> u64(0), md |-> TRUE]
Dir == [type |-> "dir", len |-> u64(0), md |-> TRUE]
Unreadable(n) == [type |-> "file", len |-> n, md |-> FALSE]

Contents(d) ==
    IF d = <<"h", "X">> THEN <<File(u64(2))>>
    ELSE IF d = <<"h", "X", "s">> THEN <<File(u64(1))>>
    ELSE IF d = <<"h", "Y">> THEN <<Symlink>>
    ELSE <<>>

\* The disk when the program starts.
StartFs == [d \in AllDirs |-> DOMAIN Contents(d)]

\* Path::parent
HasParent(p) == Len(p) > 0
Parent(p) == SubSeq(p, 1, Len(p) - 1)

IsPrefix(p, q) == Len(p) <= Len(q) /\ SubSeq(q, 1, Len(p)) = p

Orderings(S) ==
    { f \in [1..Cardinality(S) -> S] : \A i, j \in DOMAIN f : i # j => f[i] # f[j] }

----------------------------------------------------------------------------
(* Data types *)

DirStats(p, tb, fc, dc) ==
    [path |-> p, total_bytes |-> tb, file_count |-> fc, dir_count |-> dc]

Msg(t, l, p, r) ==
    [type |-> t, list |-> l, path |-> p, res |-> r, root |-> <<>>, by |-> 0]
RecomputeNow == Msg("RecomputeNow", <<>>, <<>>, "")
Tick == Msg("Tick", <<>>, <<>>, "")
Error(e) == Msg("Error", <<>>, <<>>, e)
\* root is history: the directory the scan was spawned for.
ScanFinished(l, r) == [Msg("ScanFinished", l, <<>>, "") EXCEPT !.root = r]
DeleteFinished(p, r) == Msg("DeleteFinished", <<>>, p, r)
\* by is history: the delete thread that sent the message, 0 for any other
\* sender.
SentBy(i, m) == [m EXCEPT !.by = i]

Normal == [tag |-> "Normal", path |-> <<>>]
ConfirmDelete(p) == [tag |-> "ConfirmDelete", path |-> p]

Line(k, p) == [kind |-> k, path |-> p, text |-> ""]
ErrLine(k, p, e) == [kind |-> k, path |-> p, text |-> e]

KeyEvent(c, m, k) == [code |-> c, mods |-> m, kind |-> k]
NoKey == KeyEvent("", "NONE", "")

KeyCodes == {"q", "r", "Up", "Down", "Enter", "Backspace", "d", "y", "n", "Esc", "x"}

KeyEvents ==
    { KeyEvent(c, "NONE", "Press") : c \in KeyCodes }
    \cup { KeyEvent("Up", "SHIFT", "Press"), KeyEvent("Down", "SHIFT", "Press"),
           KeyEvent("q", "NONE", "Release") }

----------------------------------------------------------------------------
(* App *)

\* Bug variant: the front is evicted one line too late.
log_late_eviction(msgs, s) ==
    LET kept == IF Len(msgs) > LogCapacity THEN Tail(msgs) ELSE msgs
    IN  Append(kept, s)

\* App::log
log(msgs, s) ==
    LET kept == IF Len(msgs) = LogCapacity THEN Tail(msgs) ELSE msgs
    IN  Append(kept, s)

\* App::selected_entry: <<>> is None, <<e>> is Some(e)
selected_entry(ents, sel) ==
    IF sel < Len(ents) THEN <<ents[sel + 1]>> ELSE <<>>

\* slice::sort_by(|a, b| b.total_bytes.cmp(&a.total_bytes)): a stable sort,
\* here an insertion sort that puts an element after its equals.
\* Bug variant: an element is put before its equals (not a stable sort).
RECURSIVE insert_desc_before_equals(_, _)
insert_desc_before_equals(sorted, e) ==
    IF sorted = <<>> THEN <<e>>
    ELSE IF Less(e.total_bytes, Head(sorted).total_bytes)
         THEN <<Head(sorted)>> \o insert_desc_before_equals(Tail(sorted), e)
         ELSE <<e>> \o sorted

RECURSIVE insert_desc(_, _)
insert_desc(sorted, e) ==
    IF sorted = <<>> THEN <<e>>
    ELSE IF ~Less(Head(sorted).total_bytes, e.total_bytes)
         THEN <<Head(sorted)>> \o insert_desc(Tail(sorted), e)
         ELSE <<e>> \o sorted

RECURSIVE sort_from(_, _)
sort_from(sorted, rest) ==
    IF rest = <<>> THEN sorted
    ELSE sort_from(insert_desc(sorted, Head(rest)), Tail(rest))

sort_by(list) == sort_from(<<>>, list)

\* Bug variant: the selection is not clamped to the new list.
set_entries_unclamped(list, sel) ==
    LET ents == sort_by(list)
    IN  IF ents = <<>> THEN <<ents, 0>> ELSE <<ents, sel>>

\* App::set_entries: the new <<entries, selected>>
set_entries(list, sel) ==
    LET ents == sort_by(list)
    IN  IF sel >= Len(ents) /\ ents # <<>> THEN <<ents, Len(ents) - 1>>
        ELSE IF ents = <<>> THEN <<ents, 0>>
        ELSE <<ents, sel>>

----------------------------------------------------------------------------
(* Scanning logic *)

\* The directories directly inside d.
Children(d, fsys) == { c \in DOMAIN fsys : HasParent(c) /\ Parent(c) = d }

\* immediate_subdirs: the child directories, in every order read_dir may
\* give them; a root that cannot be read gives the empty list.
immediate_subdirs(root, fsys) ==
    IF root \in DOMAIN fsys THEN Orderings(Children(root, fsys)) ELSE { <<>> }

\* The body of the loop of compute_stats_for_dir, for one entry.
stats_step(st, entry) ==
    IF entry.type = "file"
    THEN IF entry.md
         THEN [st EXCEPT
                !.total_bytes = saturating_add(@, as_u128(entry.len)),
                !.file_count = saturating_add(@, u64(1))]
         ELSE st
    ELSE IF entry.type = "dir"
    THEN [st EXCEPT !.dir_count = saturating_add(@, u64(1))]
    ELSE st

\* The loop of compute_stats_for_dir over a sequence of entries.
RECURSIVE stats_loop(_, _)
stats_loop(st, walk) ==
    IF walk = <<>> THEN st
    ELSE stats_loop(stats_step(st, Head(walk)), Tail(walk))

\* What WalkDir still has to visit: the entry of dir itself ("root", which it
\* stats), a directory it has yielded and will open ("dir"), a file it has
\* yielded and whose metadata the loop will ask for ("file").
Item(k, d, i) == [kind |-> k, dir |-> d, idx |-> i]

\* The iterator WalkDir::new(dir).follow_links(false) and the counters of
\* the loop: todo is the stack of the directories that are open, each with
\* the entries read from it and not visited yet, the deepest first.
Walker(dir) ==
    [st |-> DirStats(dir, u128(0), u64(0), u64(0)),
     todo |-> << {Item("root", dir, 0)} >>]

Push(frame, stack) == IF frame = {} THEN stack ELSE <<frame>> \o stack

\* The directory d is opened and read: the loop body runs at once for the
\* entries that need no further system call (a directory is counted, a
\* symlink is skipped: file_type() comes with the directory entry); the
\* directories are left to be opened and the files to be asked for their
\* metadata, in any order.
ReadDir(w, d, rest, fsys) ==
    LET subs == Children(d, fsys)
        links == { i \in fsys[d] : Contents(d)[i].type = "symlink" }
        files == { i \in fsys[d] : Contents(d)[i].type = "file" }
    IN  [st |-> stats_loop(w.st, [k \in 1..Cardinality(subs) |-> Dir]
                                 \o [k \in 1..Cardinality(links) |-> Symlink]),
         todo |-> Push({ Item("dir", c, 0) : c \in subs }
                       \cup { Item("file", d, i) : i \in files }, rest)]

\* One visit of the walk, to the entry x of the directory open last, on the
\* disk as it is now.  A directory that is gone gives an error entry, which
\* filter_map drops; a file that is gone has no metadata and is skipped.
walk_step(w, x, fsys) ==
    LET rest == Push(Head(w.todo) \ {x}, Tail(w.todo))
    IN  IF x.kind = "root"
        THEN IF x.dir \in DOMAIN fsys
             THEN ReadDir([w EXCEPT !.st = stats_step(@, Dir)], x.dir, rest, fsys)
             ELSE [w EXCEPT !.todo = rest]
        ELSE IF x.kind = "dir"
        THEN IF x.dir \in DOMAIN fsys
             THEN ReadDir(w, x.dir, rest, fsys)
             ELSE [w EXCEPT !.todo = rest]
        ELSE IF x.dir \in DOMAIN fsys /\ x.idx \in fsys[x.dir]
             THEN [st |-> stats_step(w.st, Contents(x.dir)[x.idx]), todo |-> rest]
             ELSE [st |-> stats_step(w.st, Unreadable(u64(0))), todo |-> rest]

\* The walk from w to its end on a disk that does not change.
RECURSIVE finish(_, _)
finish(w, fsys) ==
    IF w.todo = <<>> THEN w.st
    ELSE CHOOSE st \in
            { finish(w2, fsys) :
                w2 \in { walk_step(w, x, fsys) :
                            x \in {CHOOSE y \in Head(w.todo) : TRUE} } } : TRUE

compute_stats_for_dir(dir, fsys) ==
    CHOOSE st \in { finish(w, fsys) : w \in {Walker(dir)} } : TRUE

\* walks: one walk for each child directory (par_iter).
ScanThread(root) ==
    [root |-> root, pc |-> "enumerate", child_dirs |-> <<>>, walks |-> <<>>]

\* opened: remove_dir_all has found and opened the target.
\* cur is the directory remove_dir_all is emptying.
\* at is history: the number of inputs read when the thread was spawned.
DeleteThread(target, n) ==
    [target |-> target, pc |-> "remove", res |-> "", opened |-> FALSE,
     cur |-> target, at |-> n]

----------------------------------------------------------------------------
(* main: the state when the timer threads have been spawned *)

\* The counters of a walk that has yielded nothing, and its history.
NoStats == DirStats(StartDir, u128(0), u64(0), u64(0))
NoneSeen == [n |-> 0, bytes |-> Limbs(0, 9), files |-> Limbs(0, 5), dirs |-> Limbs(0, 5)]

InitApp ==
    /\ cwd = StartDir
    /\ selected = 0
    /\ entries = <<>>
    /\ messages = <<>>
    /\ last_error = <<>>
    /\ last_scan_started = FALSE
    /\ is_scanning = FALSE
    /\ mode = Normal
    /\ chan = <<>>
    /\ ctl = "main"
    /\ key = NoKey
    /\ scans = <<>>
    /\ deletes = <<>>
    /\ fs = StartFs
    /\ ninputs = 0
    /\ nlogged = 0
    /\ applied = {}

Init ==
    /\ InitApp
    /\ acc = NoStats
    /\ seen = NoneSeen

----------------------------------------------------------------------------
(* handle_key *)

Log(s) == messages' = log(messages, s) /\ nlogged' = nlogged + 1
NoLog == UNCHANGED <<messages, nlogged>>

Send(m) == chan' = Append(chan, m)

walker == <<acc, seen>>

\* event::poll gave an event and event::read returned the key event e.
ReadKey(e) ==
    /\ ctl = "poll"
    /\ ninputs < MaxInputs
    /\ key' = e
    /\ ninputs' = ninputs + 1
    /\ UNCHANGED walker

Pressed(e, c) == e.kind = "Press" /\ e.code = c

workers == <<scans, deletes, fs>>

\* key.kind != KeyEventKind::Press
KeyNotPress ==
    \E e \in KeyEvents :
        /\ ReadKey(e)
        /\ e.kind # "Press"
        /\ ctl' = "drain"
        /\ UNCHANGED <<app_vars, chan, workers>>

\* Bug variant: 'q' is read and the loop goes on.
NormalQuit_ignored ==
    \E e \in KeyEvents :
        /\ ReadKey(e)
        /\ mode.tag = "Normal" /\ Pressed(e, "q")
        /\ ctl' = "drain"
        /\ UNCHANGED <<app_vars, chan, workers>>

\* Mode::Normal, 'q'
NormalQuit ==
    \E e \in KeyEvents :
        /\ ReadKey(e)
        /\ mode.tag = "Normal" /\ Pressed(e, "q")
        /\ ctl' = "quit"
        /\ UNCHANGED <<app_vars, chan, workers>>

\* Mode::Normal, 'r'
NormalRefresh ==
    \E e \in KeyEvents :
        /\ ReadKey(e)
        /\ mode.tag = "Normal" /\ Pressed(e, "r")
        /\ Send(RecomputeNow)
        /\ ctl' = "drain"
        /\ UNCHANGED <<app_vars, workers>>

\* Mode::Normal, Up without modifiers
NormalUp ==
    \E e \in KeyEvents :
        /\ ReadKey(e)
        /\ mode.tag = "Normal" /\ Pressed(e, "Up") /\ e.mods = "NONE"
        /\ selected' = IF entries # <<>>
                       THEN (IF selected = 0 THEN 0 ELSE selected - 1)
                       ELSE selected
        /\ ctl' = "drain"
        /\ UNCHANGED <<cwd, entries, messages, last_error, last_scan_started,
                       is_scanning, mode, nlogged, applied, chan, workers>>

Min(a, b) == IF a < b THEN a ELSE b

\* Mode::Normal, Down without modifiers
NormalDown ==
    \E e \in KeyEvents :
        /\ ReadKey(e)
        /\ mode.tag = "Normal" /\ Pressed(e, "Down") /\ e.mods = "NONE"
        /\ selected' = IF entries # <<>>
                       THEN Min(selected + 1,
                                IF Len(entries) = 0 THEN 0 ELSE Len(entries) - 1)
                       ELSE selected
        /\ ctl' = "drain"
        /\ UNCHANGED <<cwd, entries, messages, last_error, last_scan_started,
                       is_scanning, mode, nlogged, applied, chan, workers>>

\* Mode::Normal, Enter
NormalEnter ==
    \E e \in KeyEvents :
        /\ ReadKey(e)
        /\ mode.tag = "Normal" /\ Pressed(e, "Enter")
        /\ LET sel == selected_entry(entries, selected)
           IN  IF sel # <<>>
               THEN /\ cwd' = sel[1].path
                    /\ selected' = 0
                    /\ Log(Line("Entered", sel[1].path))
                    /\ Send(RecomputeNow)
               ELSE /\ UNCHANGED <<cwd, selected, chan>>
                    /\ NoLog
        /\ ctl' = "drain"
        /\ UNCHANGED <<entries, last_error, last_scan_started, is_scanning,
                       mode, applied, workers>>

\* Mode::Normal, Backspace
NormalBackspace ==
    \E e \in KeyEvents :
        /\ ReadKey(e)
        /\ mode.tag = "Normal" /\ Pressed(e, "Backspace")
        /\ IF HasParent(cwd)
           THEN /\ cwd' = Parent(cwd)
                /\ selected' = 0
                /\ Log(Line("Up to", Parent(cwd)))
                /\ Send(RecomputeNow)
           ELSE /\ Log(Line("Already at filesystem root", <<>>))
                /\ UNCHANGED <<cwd, selected, chan>>
        /\ ctl' = "drain"
        /\ UNCHANGED <<entries, last_error, last_scan_started, is_scanning,
                       mode, applied, workers>>

\* Bug variant: 'd' deletes the selected directory without asking.
NormalDelete_unconfirmed ==
    \E e \in KeyEvents :
        /\ ReadKey(e)
        /\ mode.tag = "Normal" /\ Pressed(e, "d")
        /\ LET sel == selected_entry(entries, selected)
           IN  deletes' = IF sel # <<>>
                          THEN Append(deletes, DeleteThread(sel[1].path, ninputs'))
                          ELSE deletes
        /\ ctl' = "drain"
        /\ UNCHANGED <<app_vars, chan, scans, fs>>

\* Mode::Normal, 'd'
NormalDelete ==
    \E e \in KeyEvents :
        /\ ReadKey(e)
        /\ mode.tag = "Normal" /\ Pressed(e, "d")
        /\ LET sel == selected_entry(entries, selected)
           IN  mode' = IF sel # <<>> THEN ConfirmDelete(sel[1].path) ELSE mode
        /\ ctl' = "drain"
        /\ UNCHANGED <<cwd, selected, entries, messages, last_error,
                       last_scan_started, is_scanning, nlogged, applied,
                       chan, workers>>

\* Mode::Normal, any other key
NormalOther ==
    \E e \in KeyEvents :
        /\ ReadKey(e)
        /\ mode.tag = "Normal" /\ e.kind = "Press"
        /\ \/ e.code \notin {"q", "r", "Up", "Down", "Enter", "Backspace", "d"}
           \/ e.code \in {"Up", "Down"} /\ e.mods # "NONE"
        /\ ctl' = "drain"
        /\ UNCHANGED <<app_vars, chan, workers>>

\* Mode::ConfirmDelete(target), 'y'
ConfirmYes ==
    \E e \in KeyEvents :
        /\ ReadKey(e)
        /\ mode.tag = "ConfirmDelete" /\ Pressed(e, "y")
        /\ Send(RecomputeNow)
        /\ deletes' = Append(deletes, DeleteThread(mode.path, ninputs'))
        /\ mode' = Normal
        /\ ctl' = "drain"
        /\ UNCHANGED <<cwd, selected, entries, messages, last_error,
                       last_scan_started, is_scanning, nlogged, applied,
                       scans, fs>>

\* Bug variant: cancelling also asks for a rescan.
ConfirmNo_rescan ==
    \E e \in KeyEvents :
        /\ ReadKey(e)
        /\ mode.tag = "ConfirmDelete" /\ e.kind = "Press" /\ e.code \in {"n", "Esc"}
        /\ mode' = Normal
        /\ Log(Line("Deletion cancelled", <<>>))
        /\ Send(RecomputeNow)
        /\ ctl' = "drain"
        /\ UNCHANGED <<cwd, selected, entries, last_error, last_scan_started,
                       is_scanning, applied, workers>>

\* Mode::ConfirmDelete(target), 'n' or Esc
ConfirmNo ==
    \E e \in KeyEvents :
        /\ ReadKey(e)
        /\ mode.tag = "ConfirmDelete" /\ e.kind = "Press" /\ e.code \in {"n", "Esc"}
        /\ mode' = Normal
        /\ Log(Line("Deletion cancelled", <<>>))
        /\ ctl' = "drain"
        /\ UNCHANGED <<cwd, selected, entries, last_error, last_scan_started,
                       is_scanning, applied, chan, workers>>

\* Bug variant: 'r' asks for a rescan from inside the modal.
ConfirmOther_refresh ==
    \E e \in KeyEvents :
        /\ ReadKey(e)
        /\ mode.tag = "ConfirmDelete" /\ e.kind = "Press"
        /\ e.code \notin {"y", "n", "Esc"}
        /\ chan' = IF e.code = "r" THEN Append(chan, RecomputeNow) ELSE chan
        /\ ctl' = "drain"
        /\ UNCHANGED <<app_vars, workers>>

\* Mode::ConfirmDelete(target), any other key
ConfirmOther ==
    \E e \in KeyEvents :
        /\ ReadKey(e)
        /\ mode.tag = "ConfirmDelete" /\ e.kind = "Press"
        /\ e.code \notin {"y", "n", "Esc"}
        /\ ctl' = "drain"
        /\ UNCHANGED <<app_vars, chan, workers>>

\* main: tx.send(Msg::RecomputeNow), the terminal is set up and run_loop is
\* entered.  The timer threads are running already.
MainSendRecompute ==
    /\ ctl = "main"
    /\ Send(RecomputeNow)
    /\ ctl' = "poll"
    /\ UNCHANGED <<app_vars, key, workers, ninputs, walker>>

\* event::poll timed out, or the event was not a key event.
PollTimeout ==
    /\ ctl = "poll"
    /\ UNCHANGED key
    /\ ctl' = "drain"
    /\ UNCHANGED <<app_vars, chan, workers, ninputs, walker>>

----------------------------------------------------------------------------
(* run_loop: drain messages *)

Recv(t) ==
    /\ ctl = "drain"
    /\ chan # <<>>
    /\ Head(chan).type = t
    /\ UNCHANGED <<ctl, key, ninputs, walker>>

\* Msg::Tick
RecvTick ==
    /\ Recv("Tick")
    /\ chan' = Tail(chan)
    /\ UNCHANGED <<app_vars, workers>>

\* Bug variant: the request is served without looking at is_scanning.
RecvRecomputeNow_ungated ==
    /\ Recv("RecomputeNow")
    /\ chan' = Tail(chan)
    /\ Log(Line("scan started", <<>>))
    /\ is_scanning' = TRUE
    /\ last_scan_started' = TRUE
    /\ scans' = Append(scans, ScanThread(cwd))
    /\ UNCHANGED <<cwd, selected, entries, last_error, mode, applied,
                   deletes, fs>>

\* A handler that logs a request it does not serve.
RecvRecomputeNow_logs_skipped ==
    /\ Recv("RecomputeNow")
    /\ chan' = Tail(chan)
    /\ IF ~is_scanning
       THEN /\ Log(Line("scan started", <<>>))
            /\ is_scanning' = TRUE
            /\ last_scan_started' = TRUE
            /\ scans' = Append(scans, ScanThread(cwd))
       ELSE /\ Log(Line("scan skipped", <<>>))
            /\ UNCHANGED <<is_scanning, last_scan_started, scans>>
    /\ UNCHANGED <<cwd, selected, entries, last_error, mode, applied,
                   deletes, fs>>

\* Msg::RecomputeNow
RecvRecomputeNow ==
    /\ Recv("RecomputeNow")
    /\ chan' = Tail(chan)
    /\ IF ~is_scanning
       THEN /\ Log(Line("scan started", <<>>))
            /\ is_scanning' = TRUE
            /\ last_scan_started' = TRUE
            /\ scans' = Append(scans, ScanThread(cwd))
       ELSE /\ NoLog
            /\ UNCHANGED <<is_scanning, last_scan_started, scans>>
    /\ UNCHANGED <<cwd, selected, entries, last_error, mode, applied,
                   deletes, fs>>

\* Msg::Error(e)
RecvError ==
    /\ Recv("Error")
    /\ chan' = Tail(chan)
    /\ last_error' = <<ErrLine("", <<>>, Head(chan).res)>>
    /\ Log(ErrLine("Error", <<>>, Head(chan).res))
    /\ UNCHANGED <<cwd, selected, entries, last_scan_started, is_scanning,
                   mode, applied, workers>>

\* A handler that moves an open modal to the entry now selected.
RecvScanFinished_retargets_modal ==
    /\ Recv("ScanFinished")
    /\ chan' = Tail(chan)
    /\ is_scanning' = FALSE
    /\ LET se == set_entries(Head(chan).list, selected)
       IN  /\ entries' = se[1] /\ selected' = se[2]
           /\ mode' = IF mode.tag = "ConfirmDelete" /\ se[1] # <<>>
                      THEN ConfirmDelete(se[1][se[2] + 1].path)
                      ELSE mode
    /\ IF last_scan_started
       THEN Log(Line("scan completed", <<>>))
       ELSE Log(Line("Scan completed", <<>>))
    /\ last_scan_started' = FALSE
    /\ applied' = {Head(chan).root}
    /\ UNCHANGED <<cwd, last_error, workers>>

\* A handler that throws away the result of a scan of another directory.
RecvScanFinished_current_root_only ==
    /\ Recv("ScanFinished")
    /\ chan' = Tail(chan)
    /\ is_scanning' = FALSE
    /\ IF Head(chan).root = cwd
       THEN /\ LET se == set_entries(Head(chan).list, selected)
               IN  entries' = se[1] /\ selected' = se[2]
            /\ applied' = {Head(chan).root}
       ELSE UNCHANGED <<entries, selected, applied>>
    /\ IF last_scan_started
       THEN Log(Line("scan completed", <<>>))
       ELSE Log(Line("Scan completed", <<>>))
    /\ last_scan_started' = FALSE
    /\ UNCHANGED <<cwd, last_error, mode, workers>>

\* Msg::ScanFinished(list)
RecvScanFinished ==
    /\ Recv("ScanFinished")
    /\ chan' = Tail(chan)
    /\ is_scanning' = FALSE
    /\ LET se == set_entries(Head(chan).list, selected)
       IN  entries' = se[1] /\ selected' = se[2]
    /\ IF last_scan_started
       THEN Log(Line("scan completed", <<>>))
       ELSE Log(Line("Scan completed", <<>>))
    /\ last_scan_started' = FALSE
    /\ applied' = {Head(chan).root}
    /\ UNCHANGED <<cwd, last_error, mode, workers>>

\* A handler that keeps the error it holds when another failure arrives.
RecvDeleteFinished_keeps_first_error ==
    /\ Recv("DeleteFinished")
    /\ chan' = Tail(chan)
    /\ LET m == Head(chan)
       IN  IF m.res = "Ok"
           THEN /\ Log(Line("Deleted", m.path))
                /\ UNCHANGED last_error
           ELSE /\ last_error' = IF last_error = <<>>
                                 THEN <<ErrLine("Failed to delete", m.path, m.res)>>
                                 ELSE last_error
                /\ Log(ErrLine("Failed to delete", m.path, m.res))
    /\ UNCHANGED <<cwd, selected, entries, last_scan_started, is_scanning,
                   mode, applied, workers>>

\* Msg::DeleteFinished(path, res)
RecvDeleteFinished ==
    /\ Recv("DeleteFinished")
    /\ chan' = Tail(chan)
    /\ LET m == Head(chan)
       IN  IF m.res = "Ok"
           THEN /\ Log(Line("Deleted", m.path))
                /\ UNCHANGED last_error
           ELSE /\ last_error' = <<ErrLine("Failed to delete", m.path, m.res)>>
                /\ Log(ErrLine("Failed to delete", m.path, m.res))
    /\ UNCHANGED <<cwd, selected, entries, last_scan_started, is_scanning,
                   mode, applied, workers>>

\* rx.try_recv() found the channel empty: back to the top of the loop.
DrainDone ==
    /\ ctl = "drain"
    /\ chan = <<>>
    /\ ctl' = "poll"
    /\ key' = NoKey
    /\ UNCHANGED <<app_vars, chan, workers, ninputs, walker>>

----------------------------------------------------------------------------
(* Worker threads *)

\* run_loop has not returned: rx exists.  A worker thread runs on after
\* run_loop has returned, until the process ends; what it sends then is
\* dropped (tx.send gives Err, which the thread ignores).
Running == ctl # "quit"

SendIfOpen(m) == IF Running THEN Send(m) ELSE UNCHANGED chan

SetAt(seq, i, v) == [seq EXCEPT ![i] = v]
RemoveAt(seq, i) == SubSeq(seq, 1, i - 1) \o SubSeq(seq, i + 1, Len(seq))

\* spawn_scan_thread: let child_dirs = immediate_subdirs(&cwd)
ScanEnumerate ==
    \E i \in DOMAIN scans :
        /\ scans[i].pc = "enumerate"
        /\ \E dirs \in immediate_subdirs(scans[i].root, fs) :
              scans' = SetAt(scans, i,
                         [scans[i] EXCEPT
                            !.child_dirs = dirs,
                            !.walks = [k \in DOMAIN dirs |-> Walker(dirs[k])],
                            !.pc = "compute"])
        /\ UNCHANGED <<app_vars, chan, ctl, key, deletes, fs, ninputs, walker>>

AllWalked(t) == \A k \in DOMAIN t.walks : t.walks[k].todo = <<>>

\* spawn_scan_thread: child_dirs.par_iter().map(compute_stats_for_dir): the
\* walk of one child reads one directory or the metadata of one entry.
ScanCompute ==
    \E i \in DOMAIN scans :
        /\ scans[i].pc = "compute"
        /\ \E k \in DOMAIN scans[i].walks :
              /\ scans[i].walks[k].todo # <<>>
              /\ \E x \in Head(scans[i].walks[k].todo) :
                    scans' = SetAt(scans, i,
                        [scans[i] EXCEPT !.walks[k] = walk_step(@, x, fs)])
        /\ UNCHANGED <<app_vars, chan, ctl, key, deletes, fs, ninputs, walker>>

\* .collect(): the results, in the order of child_dirs
Results(t) == [k \in DOMAIN t.walks |-> t.walks[k].st]

\* A scan thread that sends the result of each directory as it is measured.
ScanSend_streaming ==
    \E i \in DOMAIN scans :
        /\ scans[i].pc = "compute"
        /\ AllWalked(scans[i])
        /\ IF Len(scans[i].walks) <= 1
           THEN /\ SendIfOpen(ScanFinished(Results(scans[i]), scans[i].root))
                /\ scans' = RemoveAt(scans, i)
           ELSE /\ SendIfOpen(ScanFinished(<<Head(Results(scans[i]))>>, scans[i].root))
                /\ scans' = SetAt(scans, i,
                      [scans[i] EXCEPT !.walks = Tail(@), !.child_dirs = Tail(@)])
        /\ UNCHANGED <<app_vars, ctl, key, deletes, fs, ninputs, walker>>

\* spawn_scan_thread: tx.send(Msg::ScanFinished(results)), and the thread ends
ScanSend ==
    \E i \in DOMAIN scans :
        /\ scans[i].pc = "compute"
        /\ AllWalked(scans[i])
        /\ SendIfOpen(ScanFinished(Results(scans[i]), scans[i].root))
        /\ scans' = RemoveAt(scans, i)
        /\ UNCHANGED <<app_vars, ctl, key, deletes, fs, ninputs, walker>>

\* remove_dir_all returns r.
Returns(i, r) ==
    deletes' = SetAt(deletes, i,
        [deletes[i] EXCEPT !.res = r, !.pc = "sendFinished", !.opened = FALSE,
                           !.cur = deletes[i].target])

\* spawn_delete_thread: one system call of fs::remove_dir_all(&target).  The
\* first finds and opens the target, and a target that is not there ends
\* remove_dir_all with NotFound.  Once the target is open, a call removes an
\* entry of the directory being emptied, or goes into a child directory, or
\* removes the directory once it is empty; what another thread has removed
\* in the meantime is passed over as removed.  Any call may fail otherwise,
\* and the first error ends remove_dir_all with what is left on the disk.
DeleteRemove ==
    \E i \in DOMAIN deletes :
        /\ deletes[i].pc = "remove"
        /\ LET c == deletes[i].cur
           IN  IF ~deletes[i].opened
               THEN /\ UNCHANGED fs
                    /\ IF c \in DOMAIN fs
                       THEN \/ deletes' = SetAt(deletes, i,
                                   [deletes[i] EXCEPT !.opened = TRUE])
                            \/ Returns(i, "PermissionDenied")
                       ELSE Returns(i, "NotFound")
               ELSE IF c \notin DOMAIN fs
               THEN /\ UNCHANGED fs
                    /\ IF c = deletes[i].target
                       THEN Returns(i, "Ok")
                       ELSE deletes' = SetAt(deletes, i,
                               [deletes[i] EXCEPT !.cur = Parent(c)])
               ELSE \/ \E e \in fs[c] :
                          /\ fs' = [fs EXCEPT ![c] = @ \ {e}]
                          /\ UNCHANGED deletes
                    \/ \E d \in Children(c, fs) :
                          /\ deletes' = SetAt(deletes, i, [deletes[i] EXCEPT !.cur = d])
                          /\ UNCHANGED fs
                    \/ /\ fs[c] = {}
                       /\ Children(c, fs) = {}
                       /\ fs' = [d \in DOMAIN fs \ {c} |-> fs[d]]
                       /\ IF c = deletes[i].target
                          THEN Returns(i, "Ok")
                          ELSE deletes' = SetAt(deletes, i,
                                  [deletes[i] EXCEPT !.cur = Parent(c)])
                    \/ /\ UNCHANGED fs
                       /\ Returns(i, "PermissionDenied")
        /\ UNCHANGED <<app_vars, chan, ctl, key, scans, ninputs, walker>>

\* A thread that reports a removal only when it succeeded.
DeleteSendFinished_only_on_success ==
    \E i \in DOMAIN deletes :
        /\ deletes[i].pc = "sendFinished"
        /\ IF deletes[i].res = "Ok"
           THEN SendIfOpen(SentBy(i, DeleteFinished(deletes[i].target, deletes[i].res)))
           ELSE UNCHANGED chan
        /\ deletes' = SetAt(deletes, i, [deletes[i] EXCEPT !.pc = "sendRecompute"])
        /\ UNCHANGED <<app_vars, ctl, key, scans, fs, ninputs, walker>>

\* spawn_delete_thread: tx.send(Msg::DeleteFinished(target, res))
DeleteSendFinished ==
    \E i \in DOMAIN deletes :
        /\ deletes[i].pc = "sendFinished"
        /\ SendIfOpen(SentBy(i, DeleteFinished(deletes[i].target, deletes[i].res)))
        /\ deletes' = SetAt(deletes, i, [deletes[i] EXCEPT !.pc = "sendRecompute"])
        /\ UNCHANGED <<app_vars, ctl, key, scans, fs, ninputs, walker>>

\* spawn_delete_thread: tx.send(Msg::RecomputeNow), and the thread ends
DeleteSendRecompute ==
    \E i \in DOMAIN deletes :
        /\ deletes[i].pc = "sendRecompute"
        /\ SendIfOpen(SentBy(i, RecomputeNow))
        /\ deletes' = SetAt(deletes, i, [deletes[i] EXCEPT !.pc = "done"])
        /\ UNCHANGED <<app_vars, ctl, key, scans, fs, ninputs, walker>>

\* main: the UI timer thread.  What it sends after run_loop has returned is
\* dropped, and the thread has no other effect.
TickThread ==
    /\ Running
    /\ ninputs < MaxInputs
    /\ ninputs' = ninputs + 1
    /\ Send(Tick)
    /\ UNCHANGED <<app_vars, ctl, key, scans, deletes, fs, walker>>

\* main: the periodic rescanner thread, with no effect either after
\* run_loop has returned.
PeriodicThread ==
    /\ Running
    /\ ninputs < MaxInputs
    /\ ninputs' = ninputs + 1
    /\ Send(RecomputeNow)
    /\ UNCHANGED <<app_vars, ctl, key, scans, deletes, fs, walker>>

----------------------------------------------------------------------------

\* Msg::Error is never constructed (dead_code, main.rs:45): no thread sends
\* it, so RecvError is not a step of the program.
Next ==
    \/ MainSendRecompute
    \/ KeyNotPress
    \/ NormalQuit
    \/ NormalRefresh
    \/ NormalUp
    \/ NormalDown
    \/ NormalEnter
    \/ NormalBackspace
    \/ NormalDelete
    \/ NormalOther
    \/ ConfirmYes
    \/ ConfirmNo
    \/ ConfirmOther
    \/ PollTimeout
    \/ RecvTick
    \/ RecvRecomputeNow
    \/ RecvScanFinished
    \/ RecvDeleteFinished
    \/ DrainDone
    \/ ScanEnumerate
    \/ ScanCompute
    \/ ScanSend
    \/ DeleteRemove
    \/ DeleteSendFinished
    \/ DeleteSendRecompute
    \/ TickThread
    \/ PeriodicThread

Spec == Init /\ [][Next]_vars

\* A cycle of run_loop: event::poll returns after 50 ms at the latest while
\* the terminal answers, and try_recv returns at once.
ControllerStep ==
    \/ PollTimeout
    \/ RecvTick
    \/ RecvRecomputeNow
    \/ RecvScanFinished
    \/ RecvDeleteFinished
    \/ DrainDone

\* A scan thread waits for nothing: it reads the file system and sends.
ScanThreadStep == ScanEnumerate \/ ScanCompute \/ ScanSend

\* Fair scheduling: the terminal answers poll and read, so that run_loop
\* keeps cycling until it returns, and a scan thread gets processor time
\* while the process lives.  A run in which the terminal is gone and
\* run_loop stays inside poll, and the steps of a scan thread after
\* run_loop has returned (the process is ending), are not fair runs.
FairSpec ==
    Spec /\ WF_vars(ControllerStep) /\ WF_vars(Running /\ ScanThreadStep)

----------------------------------------------------------------------------
(* Two delete threads on one target *)

\* The state of the program when, the first scan applied, the keys d, y, d
\* and y have been read in four cycles of run_loop: the first y has spawned
\* a delete thread for /h/X and sent RecomputeNow, run_loop has taken it and
\* spawned a scan thread, /h/X is still in the list, and the second y has
\* spawned a second delete thread for /h/X.  No thread has taken a step.
ConfirmedTwice ==
    /\ cwd = StartDir
    /\ selected = 0
    /\ entries = << compute_stats_for_dir(<<"h", "X">>, StartFs),
                    compute_stats_for_dir(<<"h", "Y">>, StartFs) >>
    /\ messages = << Line("scan started", <<>>), Line("scan completed", <<>>),
                     Line("scan started", <<>>) >>
    /\ last_error = <<>>
    /\ last_scan_started = TRUE
    /\ is_scanning = TRUE
    /\ mode = Normal
    /\ chan = <<RecomputeNow>>
    /\ ctl = "drain"
    /\ key = KeyEvent("y", "NONE", "Press")
    /\ scans = << ScanThread(StartDir) >>
    /\ deletes = << DeleteThread(<<"h", "X">>, 2), DeleteThread(<<"h", "X">>, 4) >>
    /\ fs = StartFs
    /\ ninputs = 4
    /\ nlogged = 3
    /\ applied = {StartDir}
    /\ acc = NoStats
    /\ seen = NoneSeen

\* The state of the program when, the first scan applied, the keys d, y,
\* Down, d and y have been read in five cycles of run_loop: as in
\* ConfirmedTwice, but the selection has moved to /h/Y before the second d,
\* and the second delete thread is for /h/Y.  No thread has taken a step.
ConfirmedBoth ==
    /\ cwd = StartDir
    /\ selected = 1
    /\ entries = << compute_stats_for_dir(<<"h", "X">>, StartFs),
                    compute_stats_for_dir(<<"h", "Y">>, StartFs) >>
    /\ messages = << Line("scan started", <<>>), Line("scan completed", <<>>),
                     Line("scan started", <<>>) >>
    /\ last_error = <<>>
    /\ last_scan_started = TRUE
    /\ is_scanning = TRUE
    /\ mode = Normal
    /\ chan = <<RecomputeNow>>
    /\ ctl = "drain"
    /\ key = KeyEvent("y", "NONE", "Press")
    /\ scans = << ScanThread(StartDir) >>
    /\ deletes = << DeleteThread(<<"h", "X">>, 2), DeleteThread(<<"h", "Y">>, 5) >>
    /\ fs = StartFs
    /\ ninputs = 5
    /\ nlogged = 3
    /\ applied = {StartDir}
    /\ acc = NoStats
    /\ seen = NoneSeen

InitTwice == Init \/ ConfirmedTwice

\* The program from its start, where the number of inputs keeps it from a
\* second delete thread, and from ConfirmedTwice.
SpecTwice == InitTwice /\ [][Next]_vars

InitBoth == Init \/ ConfirmedBoth

\* The program from its start and from ConfirmedBoth.
SpecBoth == InitBoth /\ [][Next]_vars

----------------------------------------------------------------------------
(* App::log on its own: line n is the n-th line logged *)

LogAppend ==
    /\ nlogged < MaxLogged
    /\ Log(nlogged + 1)
    /\ UNCHANGED <<cwd, selected, entries, last_error, last_scan_started,
                   is_scanning, mode, applied, chan, ctl, key, workers, ninputs,
                   walker>>

NextLog == LogAppend

SpecLog == Init /\ [][NextLog]_vars

----------------------------------------------------------------------------
(* compute_stats_for_dir on its own: the walk yields one entry at a time   *)

FileSizes == {u64(0), u64(1), U64Max}

WalkEntries ==
    {Dir, Symlink} \cup { File(n) : n \in FileSizes } \cup {Unreadable(U64Max)}

\* x in w limbs, for x of fewer limbs
Pad(x, w) == x \o [i \in 1..(w - Len(x)) |-> 0]

\* The counters and the history of a walk at a point from which a few more
\* entries take one counter to its maximum: nothing yielded yet;
\* 2^64 - 2 empty files; 2^64 - 2 directories; 2^64 + 1 files of
\* 2^128 - 2 bytes together.
WalkStarts ==
    { [acc |-> NoStats, seen |-> NoneSeen],
      [acc |-> [NoStats EXCEPT !.file_count = [U64Max EXCEPT ![1] = Base - 2]],
       seen |-> [NoneSeen EXCEPT !.files = [Pad(U64Max, 5) EXCEPT ![1] = Base - 2]]],
      [acc |-> [NoStats EXCEPT !.dir_count = [U64Max EXCEPT ![1] = Base - 2]],
       seen |-> [NoneSeen EXCEPT !.dirs = [Pad(U64Max, 5) EXCEPT ![1] = Base - 2]]],
      [acc |-> [NoStats EXCEPT !.total_bytes = [U128Max EXCEPT ![1] = Base - 2],
                               !.file_count = U64Max],
       seen |-> [NoneSeen EXCEPT !.bytes = [Pad(U128Max, 9) EXCEPT ![1] = Base - 2],
                                 !.files = <<1, 0, 0, 0, 1>>]] }

InitStats ==
    /\ InitApp
    /\ \E s \in WalkStarts : acc = s.acc /\ seen = s.seen

\* seen is the sum without a maximum.
WalkNext ==
    \E entry \in WalkEntries :
        /\ seen.n < MaxWalk
        /\ acc' = stats_step(acc, entry)
        /\ seen' = [n |-> seen.n + 1,
                    bytes |-> wrapping_add(seen.bytes,
                        IF entry.type = "file" /\ entry.md
                        THEN Pad(entry.len, 9) ELSE Limbs(0, 9)),
                    files |-> wrapping_add(seen.files,
                        Limbs(IF entry.type = "file" /\ entry.md THEN 1 ELSE 0, 5)),
                    dirs |-> wrapping_add(seen.dirs,
                        Limbs(IF entry.type = "dir" THEN 1 ELSE 0, 5))]
        /\ UNCHANGED <<app_vars, chan, ctl, key, workers, ninputs>>

NextStats == WalkNext

SpecStats == InitStats /\ [][NextStats]_vars

----------------------------------------------------------------------------
(* Vocabulary of the properties *)

\* The step in which handle_key runs on the key event just read.
KeyStep == ctl = "poll" /\ key' # NoKey

\* The step in which run_loop takes a message of type t off the channel.
RecvStep(t) == ctl = "drain" /\ chan # <<>> /\ Head(chan).type = t /\ chan' = Tail(chan)

Pending(t) == { i \in DOMAIN chan : chan[i].type = t }

\* Scans that have been spawned and whose result has not been applied.
Outstanding == Len(scans) + Cardinality(Pending("ScanFinished"))

Paths(ents) == { ents[i].path : i \in DOMAIN ents }

Subtree(t, fsys) == { d \in DOMAIN fsys : IsPrefix(t, d) }

----------------------------------------------------------------------------
(* C1: in every reachable state the selection is inside the entry list,   *)
(* or the list is empty and the selection is 0.                            *)
C1_SelectionInBounds ==
    \/ selected < Len(entries)
    \/ entries = <<>> /\ selected = 0

\* The second entry was selected and deleted, and the rescan that lists
\* one entry has been applied: the selection was clamped from 1 to 0.
C1_Witness ==
    /\ ninputs = 3
    /\ \E i \in DOMAIN deletes :
          deletes[i].target = <<"h", "Y">> /\ deletes[i].res = "Ok"
    /\ Paths(entries) = { <<"h", "X">> }
    /\ selected = 0

----------------------------------------------------------------------------
(* C2: at most one scan is outstanding (a running scan thread or an        *)
(* undelivered ScanFinished) in every reachable state, and a RecomputeNow  *)
(* taken while is_scanning holds spawns no thread and leaves is_scanning   *)
(* as it is.                                                               *)
C2_OneScanAtATime ==
    /\ [](Outstanding <= 1)
    /\ [][RecvStep("RecomputeNow") /\ is_scanning
            => UNCHANGED <<scans, is_scanning>>]_vars

\* A manual refresh was taken off the channel while the initial scan was
\* still running: two requests served, one scan started.
C2_Witness ==
    /\ Pressed(key, "r") /\ ninputs = 1
    /\ ctl = "drain" /\ chan = <<>>
    /\ is_scanning /\ Len(scans) = 1
    /\ nlogged = 1

----------------------------------------------------------------------------
(* C3: a delete thread is spawned only by 'y' in ConfirmDelete(p), for     *)
(* exactly p; no other step spawns one; only a delete thread changes the   *)
(* disk, it only removes, and only inside its target; and                  *)
(* ConfirmDelete(p) is entered only by 'd' in Normal, with p the path of   *)
(* the selected entry.                                                     *)
C3_DeleteGatedByConfirm ==
    /\ [][mode' # mode /\ mode'.tag = "ConfirmDelete"
            => /\ KeyStep /\ Pressed(key', "d")
               /\ mode = Normal
               /\ selected < Len(entries)
               /\ mode' = ConfirmDelete(entries[selected + 1].path)
               /\ UNCHANGED <<deletes, fs, chan>>]_vars
    /\ [][deletes' # deletes /\ Len(deletes') # Len(deletes)
            => /\ KeyStep /\ Pressed(key', "y")
               /\ mode.tag = "ConfirmDelete"
               /\ deletes' = Append(deletes, DeleteThread(mode.path, ninputs'))]_vars
    /\ [][fs' # fs
            => \E i \in DOMAIN deletes :
                  /\ deletes[i].pc = "remove"
                  /\ DOMAIN fs' \subseteq DOMAIN fs
                  /\ \A d \in DOMAIN fs' : fs'[d] \subseteq fs[d]
                  /\ \A d \in DOMAIN fs \ Subtree(deletes[i].target, fs) :
                        d \in DOMAIN fs' /\ fs'[d] = fs[d]]_vars

\* 'y' was pressed in the modal and the thread for the stored path waits.
C3_Witness ==
    /\ Pressed(key, "y") /\ mode = Normal
    /\ \E i \in DOMAIN deletes :
          deletes[i].pc = "remove" /\ deletes[i].target \in Paths(entries)

----------------------------------------------------------------------------
(* C4: 'n' or Esc in ConfirmDelete(p) sets the mode to Normal, appends the *)
(* cancellation line to the log and changes nothing else: no message is    *)
(* sent, no thread is spawned, the file system is untouched.               *)
C4_CancelFrame ==
    [][KeyStep /\ mode.tag = "ConfirmDelete"
         /\ key'.kind = "Press" /\ key'.code \in {"n", "Esc"}
        => /\ mode' = Normal
           /\ messages' = Append(messages, Line("Deletion cancelled", <<>>))
           /\ UNCHANGED <<cwd, entries, selected, is_scanning, last_error,
                          last_scan_started, chan, scans, deletes, fs>>]_vars

\* The modal was cancelled in this cycle.
C4_Witness ==
    /\ key.kind = "Press" /\ key.code \in {"n", "Esc"}
    /\ mode = Normal
    /\ messages # <<>>
    /\ messages[Len(messages)] = Line("Deletion cancelled", <<>>)
    /\ entries # <<>>

----------------------------------------------------------------------------
(* Vocabulary of C5 to C7 *)

\* No scan is running or undelivered and no scan request waits.
Quiescent ==
    /\ ~is_scanning
    /\ Outstanding = 0
    /\ Pending("RecomputeNow") = {}

\* The delete thread i has removed its target and sent both its messages,
\* and no key or timer event has come in since it was confirmed.
DeletedAndLeftAlone(i) ==
    /\ deletes[i].pc = "done"
    /\ deletes[i].res = "Ok"
    /\ deletes[i].at = ninputs

----------------------------------------------------------------------------
(* C5: once a confirmed deletion has removed Y, the worker's follow-up     *)
(* request has been served and nothing is left to do (no scan outstanding, *)
(* no request or result waiting), the entry list does not contain Y.       *)
C5_DeletedEntryGone ==
    \A i \in DOMAIN deletes :
        DeletedAndLeftAlone(i) /\ Quiescent /\ Pending("DeleteFinished") = {}
            => deletes[i].target \notin Paths(entries)

----------------------------------------------------------------------------
(* C6: after Enter or Backspace, once the request it sent has been served  *)
(* and no scan is outstanding, the scan applied last is a scan of the      *)
(* current root.                                                           *)
C6_NavigationScansNewRoot ==
    key.kind = "Press" /\ key.code \in {"Enter", "Backspace"} /\ Quiescent
        => applied = {cwd}

----------------------------------------------------------------------------
(* C7: whenever the controller is quiescent, every entry of the list is a  *)
(* child of the current root.                                              *)
C7_EntriesOfCurrentRoot ==
    Quiescent =>
        \A i \in DOMAIN entries :
            HasParent(entries[i].path) /\ Parent(entries[i].path) = cwd

----------------------------------------------------------------------------
(* C8: the entry list is sorted by total_bytes, largest first, in every    *)
(* reachable state; applying ScanFinished(list) makes it the stable sort   *)
(* of list (equal totals keep the order of list); no other step changes    *)
(* the list.                                                               *)
Sorted(ents) ==
    \A i \in 1..(Len(ents) - 1) : ~Less(ents[i].total_bytes, ents[i + 1].total_bytes)

Pos(seq, e) == CHOOSE j \in DOMAIN seq : seq[j] = e

StableSortOf(list, out) ==
    /\ Len(out) = Len(list)
    /\ \A i \in DOMAIN list : \E j \in DOMAIN out : out[j] = list[i]
    /\ \A i, j \in DOMAIN list :
          i < j /\ list[i].total_bytes = list[j].total_bytes
              => Pos(out, list[i]) < Pos(out, list[j])

C8_SortedStable ==
    /\ []Sorted(entries)
    /\ [][RecvStep("ScanFinished") => StableSortOf(Head(chan).list, entries')]_vars
    /\ [][entries' # entries => RecvStep("ScanFinished")]_vars

\* A removal of /h/X stopped after its files were gone; the scan that came
\* after read Y before X and found both without a byte: they are listed in
\* the order Y, X of that scan.
C8_Witness ==
    /\ Len(entries) = 2
    /\ entries[1].total_bytes = entries[2].total_bytes
    /\ entries[1].path = <<"h", "Y">>
    /\ entries[2].path = <<"h", "X">>

----------------------------------------------------------------------------
(* C9: the log never holds more than 200 lines, and it holds the most      *)
(* recent lines in their order: all of them up to 200, the last 200 after. *)
C9_LogKeepsLast200 ==
    /\ Len(messages) <= 200
    /\ Len(messages) = (IF nlogged <= 200 THEN nlogged ELSE 200)
    /\ \A i \in DOMAIN messages : messages[i] = nlogged - Len(messages) + i

\* More than 200 lines were logged and the oldest ones are gone.
C9_Witness ==
    /\ nlogged > 201
    /\ Len(messages) = 200
    /\ messages[1] = nlogged - 199

----------------------------------------------------------------------------
(* C10 as claimed: 'q' ends the loop in Normal and in ConfirmDelete, and   *)
(* spawns no delete thread.                                                *)
C10_QuitFromAnyState ==
    [][KeyStep /\ Pressed(key', "q") => ctl' = "quit" /\ UNCHANGED deletes]_vars

(* C10 amended: 'q' ends the loop in Normal, whatever is_scanning and the  *)
(* delete threads are; in ConfirmDelete(p) it is ignored, the loop goes on *)
(* in the same mode; in neither mode does it spawn a delete thread.        *)
C10_QuitFromNormalOnly ==
    [][KeyStep /\ Pressed(key', "q")
        => /\ UNCHANGED <<deletes, fs, chan>>
           /\ IF mode.tag = "Normal"
              THEN ctl' = "quit"
              ELSE ctl' = "drain" /\ mode' = mode]_vars

\* The loop was left by 'q' while a scan and a deletion were in flight.
C10_Witness ==
    /\ ctl = "quit" /\ Pressed(key, "q")
    /\ is_scanning
    /\ \E i \in DOMAIN deletes : deletes[i].pc = "remove"

----------------------------------------------------------------------------
(* C11: the mode starts as Normal; ConfirmDelete(p) is entered only by 'd' *)
(* in Normal with an entry selected, p being that entry's path, and 'd'    *)
(* with an empty list changes nothing; ConfirmDelete is left only by 'y',  *)
(* 'n' or Esc; in ConfirmDelete the keys Up, Down, Enter, Backspace, 'd'   *)
(* and 'r' leave cwd, selected and mode unchanged and send nothing.        *)
ModalBlockedCodes == {"Up", "Down", "Enter", "Backspace", "d", "r"}

C11_ModeMachine ==
    /\ mode = Normal
    /\ [][mode'.tag = "ConfirmDelete" /\ mode' # mode
            => /\ KeyStep /\ Pressed(key', "d")
               /\ mode = Normal
               /\ selected_entry(entries, selected) # <<>>
               /\ mode'.path = selected_entry(entries, selected)[1].path]_vars
    /\ [][KeyStep /\ Pressed(key', "d") /\ mode = Normal /\ entries = <<>>
            => UNCHANGED <<app_vars, chan, workers>>]_vars
    /\ [][mode.tag = "ConfirmDelete" /\ mode' # mode
            => /\ KeyStep /\ key'.kind = "Press"
               /\ key'.code \in {"y", "n", "Esc"}
               /\ mode' = Normal]_vars
    /\ [][KeyStep /\ mode.tag = "ConfirmDelete"
              /\ key'.kind = "Press" /\ key'.code \in ModalBlockedCodes
            => UNCHANGED <<cwd, selected, mode, entries, chan, workers>>]_vars

\* A navigation key was read while the modal was open and a scan request
\* could have been sent: the modal is still open on the same root.
C11_Witness ==
    /\ mode.tag = "ConfirmDelete"
    /\ key.kind = "Press" /\ key.code \in ModalBlockedCodes
    /\ mode.path \in Paths(entries)
    /\ cwd = StartDir

----------------------------------------------------------------------------
(* C12: after any sequence of walked entries total_bytes is the sum of the *)
(* file lengths, or the counter's maximum when the sum is larger, and the  *)
(* same holds of file_count and dir_count; no counter ever decreases when  *)
(* an entry is added.                                                      *)
\* The counter of w limbs that stands for the sum x.
Clamp(x, w) ==
    IF \E i \in DOMAIN x : i > w /\ x[i] # 0 THEN MaxOf(w) ELSE SubSeq(x, 1, w)

C12_SaturatingTotals ==
    /\ [](/\ acc.total_bytes = Clamp(seen.bytes, 8)
          /\ acc.file_count = Clamp(seen.files, 4)
          /\ acc.dir_count = Clamp(seen.dirs, 4))
    /\ [][/\ ~Less(acc'.total_bytes, acc.total_bytes)
          /\ ~Less(acc'.file_count, acc.file_count)
          /\ ~Less(acc'.dir_count, acc.dir_count)]_vars

\* The file lengths sum to more than the maximum of total_bytes and there
\* are more files than file_count can hold: both counters sit at their
\* maximum.
C12_Witness ==
    /\ Less(Pad(U128Max, 9), seen.bytes) /\ acc.total_bytes = U128Max
    /\ Less(Pad(U64Max, 5), seen.files) /\ acc.file_count = U64Max
    /\ seen.n > 0

----------------------------------------------------------------------------
(* C13: for a directory that can be read, the result of the aggregator has *)
(* total_bytes = the sum of the lengths of the regular files below it,     *)
(* file_count = the number of those files, and dir_count = the number of   *)
(* directories below it, the directory itself not counted; symbolic links  *)
(* count for nothing.                                                      *)
\* The number a counter holds, for a counter below 2^31.
Value(x) == x[1] + x[2] * Base

\* The regular files in the tree of t: <<directory, index in Contents>>.
RegularFiles(t, fsys) ==
    { f \in Subtree(t, fsys) \X (1..2) :
        f[2] \in fsys[f[1]] /\ Contents(f[1])[f[2]].type = "file" }

RECURSIVE TreeBytes(_)
TreeBytes(F) ==
    IF F = {} THEN 0
    ELSE LET f == CHOOSE x \in F : TRUE
         IN  Value(Contents(f[1])[f[2]].len) + TreeBytes(F \ {f})

Aggregate(d, fsys) ==
    DirStats(d, u128(TreeBytes(RegularFiles(d, fsys))),
                u64(Cardinality(RegularFiles(d, fsys))),
                u64(Cardinality(Subtree(d, fsys) \ {d})))

\* A walk that has come to its end while no delete thread has been
\* spawned: the disk was the same for the whole walk.
C13_AggregateOfTree ==
    \A i \in DOMAIN scans :
        \A k \in DOMAIN scans[i].walks :
            deletes = <<>> /\ scans[i].walks[k].todo = <<>>
                => scans[i].walks[k].st = Aggregate(scans[i].child_dirs[k], fs)

----------------------------------------------------------------------------
(* C14: a delete thread sends exactly one DeleteFinished carrying its      *)
(* target and the outcome of the removal, then exactly one RecomputeNow,   *)
(* whether the removal succeeded or failed, and is never kept from         *)
(* sending; the channel keeps the order, so run_loop takes the             *)
(* DeleteFinished of a thread before the RecomputeNow of the same thread.  *)
SentFinished(i) ==
    { j \in DOMAIN chan : chan[j].type = "DeleteFinished" /\ chan[j].by = i }

SentRecompute(i) ==
    { j \in DOMAIN chan : chan[j].type = "RecomputeNow" /\ chan[j].by = i }

C14_DeleteProtocol ==
    /\ [](\A i \in DOMAIN deletes :
            /\ Cardinality(SentFinished(i)) <= 1
            /\ Cardinality(SentRecompute(i)) <= 1
            /\ deletes[i].pc \in {"remove", "sendFinished"}
                  => SentFinished(i) = {} /\ SentRecompute(i) = {}
            /\ deletes[i].pc = "sendRecompute" => SentRecompute(i) = {}
            /\ \A j \in SentFinished(i) :
                  /\ chan[j].path = deletes[i].target
                  /\ chan[j].res = deletes[i].res
                  /\ \A k \in SentRecompute(i) : j < k
            /\ Running /\ deletes[i].pc = "sendFinished"
                  => ENABLED DeleteSendFinished
            /\ Running /\ deletes[i].pc = "sendRecompute"
                  => ENABLED DeleteSendRecompute)
    /\ [][\A i \in DOMAIN deletes :
            /\ i \in DOMAIN deletes'
            /\ deletes'[i].target = deletes[i].target
            /\ deletes[i].pc = "remove" /\ deletes'[i] # deletes[i]
                  => /\ deletes'[i].pc \in {"remove", "sendFinished"}
                     /\ deletes'[i].pc = "sendFinished" <=> deletes'[i].res # ""
                     /\ chan' = chan
            /\ deletes[i].pc = "sendFinished" /\ deletes'[i] # deletes[i]
                  => /\ deletes'[i] = [deletes[i] EXCEPT !.pc = "sendRecompute"]
                     /\ Running => chan' = Append(chan, SentBy(i,
                            DeleteFinished(deletes[i].target, deletes[i].res)))
            /\ deletes[i].pc = "sendRecompute" /\ deletes'[i] # deletes[i]
                  => /\ deletes'[i] = [deletes[i] EXCEPT !.pc = "done"]
                     /\ Running => chan' = Append(chan, SentBy(i, RecomputeNow))
            /\ deletes[i].pc = "done" => deletes'[i] = deletes[i]
            /\ RecvStep("RecomputeNow") /\ Head(chan).by = i
                  => deletes[i].pc = "done" /\ SentFinished(i) = {}]_vars

\* Two delete threads of one target have both returned Ok and sent both
\* their messages; run_loop has taken the DeleteFinished of the first, and
\* the DeleteFinished of the second waits behind the RecomputeNow of the
\* first and ahead of its own.
C14_Witness ==
    /\ Len(deletes) = 2
    /\ deletes[1].target = deletes[2].target
    /\ \A i \in DOMAIN deletes : deletes[i].pc = "done" /\ deletes[i].res = "Ok"
    /\ SentFinished(1) = {}
    /\ \E j \in SentRecompute(1) : \E k \in SentFinished(2) : j < k
    /\ SentRecompute(2) # {}
    /\ \E k \in DOMAIN messages : messages[k].kind = "Deleted"

----------------------------------------------------------------------------
(* C15, as stated: taking a failed DeleteFinished(path, cause) or an Error *)
(* off the channel sets last_error to the message the event carries, the   *)
(* cause or the message of the Error, whatever it held before, and appends *)
(* a line to the log; nothing else changes last_error; and taking a        *)
(* failure changes none of cwd, entries, selected, mode and is_scanning    *)
(* and does not end run_loop.                                              *)
FailureStep ==
    \/ RecvStep("Error")
    \/ RecvStep("DeleteFinished") /\ Head(chan).res # "Ok"

\* The message a failure event carries: e of Error(e) and of
\* DeleteFinished(path, Err(e)).
Cause(m) == ErrLine("", <<>>, m.res)

FailureLine(m) ==
    IF m.type = "Error" THEN ErrLine("Error", <<>>, m.res)
    ELSE ErrLine("Failed to delete", m.path, m.res)

C15_SurfacedCause ==
    /\ [][FailureStep
             => /\ last_error' = <<Cause(Head(chan))>>
                /\ messages' = log(messages, FailureLine(Head(chan)))
                /\ UNCHANGED <<cwd, entries, selected, mode, is_scanning>>
                /\ ctl' = "drain"]_vars
    /\ [][last_error' # last_error => FailureStep]_vars

(* C15, amended: no Error is ever in the channel; taking a failed          *)
(* DeleteFinished(path, cause) off the channel sets last_error to the text *)
(* "Failed to delete path: cause", whatever it held before, and appends    *)
(* the same text to the log; no other step changes last_error; and taking  *)
(* a failure changes none of cwd, entries, selected, mode and is_scanning  *)
(* and does not end run_loop.                                              *)
DeleteFailed == RecvStep("DeleteFinished") /\ Head(chan).res # "Ok"

C15_SurfacedError ==
    /\ [](Pending("Error") = {})
    /\ [][DeleteFailed
             => /\ last_error' = <<FailureLine(Head(chan))>>
                /\ messages' = log(messages, FailureLine(Head(chan)))
                /\ UNCHANGED <<cwd, entries, selected, mode, is_scanning>>
                /\ ctl' = "drain"]_vars
    /\ [][last_error' # last_error => DeleteFailed]_vars

\* The removal of /h/X and the removal of /h/Y have both failed; the
\* failure of /h/X was surfaced first, and the failure of /h/Y has been
\* surfaced over it and logged after it, while the list, the selection
\* and the mode stayed as they were.
C15_Witness ==
    /\ Len(deletes) = 2
    /\ \A i \in DOMAIN deletes : deletes[i].res = "PermissionDenied"
    /\ last_error = <<ErrLine("Failed to delete", <<"h", "Y">>, "PermissionDenied")>>
    /\ Len(messages) >= 2
    /\ messages[Len(messages) - 1]
          = ErrLine("Failed to delete", <<"h", "X">>, "PermissionDenied")
    /\ messages[Len(messages)]
          = ErrLine("Failed to delete", <<"h", "Y">>, "PermissionDenied")
    /\ ctl = "drain"
    /\ mode = Normal /\ selected = 1 /\ Len(entries) = 2

----------------------------------------------------------------------------
(* C16: taking ScanFinished(list) off the channel always clears            *)
(* is_scanning and makes the entry list hold exactly the elements of list, *)
(* the old entries gone, whatever directory the scan was started for and   *)
(* whatever cwd is now: the result of a scan of an earlier root that       *)
(* arrives after a navigation is applied all the same.                     *)
Elements(seq) == { seq[i] : i \in DOMAIN seq }

C16_ResultAppliedWholesale ==
    [][RecvStep("ScanFinished")
          => /\ is_scanning' = FALSE
             /\ Len(entries') = Len(Head(chan).list)
             /\ Elements(entries') = Elements(Head(chan).list)
             /\ applied' = {Head(chan).root}
             /\ cwd' = cwd]_vars

\* The result of a scan of /h has been applied after the root became /h/X
\* (no scan and no request is left that could have been started since): the
\* entries are the children of /h.
C16_Witness ==
    /\ cwd = <<"h", "X">>
    /\ applied = {<<"h">>}
    /\ Quiescent
    /\ ctl = "drain"
    /\ Paths(entries) = {<<"h", "X">>, <<"h", "Y">>}

----------------------------------------------------------------------------
(* C17: taking RecomputeNow off the channel while is_scanning is true      *)
(* changes nothing of the application state, the log included, and starts  *)
(* no scan; while is_scanning is false it sets is_scanning, records the    *)
(* start time and starts exactly one scan, of the directory that is cwd    *)
(* when the message is taken, not when it was sent.                        *)
C17_RequestGate ==
    [][RecvStep("RecomputeNow")
          => /\ UNCHANGED <<cwd, entries, selected, mode, last_error,
                            deletes, fs>>
             /\ IF is_scanning
                THEN UNCHANGED <<is_scanning, last_scan_started, messages,
                                 scans>>
                ELSE /\ is_scanning' = TRUE
                     /\ last_scan_started' = TRUE
                     /\ scans' = Append(scans, ScanThread(cwd))]_vars

\* The request main sent while cwd was /h has been taken after Backspace
\* made cwd the parent: the one scan started is a scan of the parent, and
\* the request of the Backspace still waits.
C17_Witness ==
    /\ ninputs = 1
    /\ Pressed(key, "Backspace")
    /\ cwd = Parent(StartDir)
    /\ Len(scans) = 1
    /\ scans[1].root = cwd
    /\ is_scanning
    /\ Pending("RecomputeNow") # {}

----------------------------------------------------------------------------
(* C18: while run_loop runs, is_scanning is true exactly when one scan is   *)
(* outstanding (started and its result not yet applied), and never more    *)
(* than one is; a scan thread sends one ScanFinished, with the results of  *)
(* all the child directories, and ends; a start time is recorded exactly   *)
(* while is_scanning is true, so it is there when ScanFinished is taken;   *)
(* and with fair scheduling is_scanning = true leads to is_scanning =      *)
(* false, unless the program is quit: at every moment is_scanning is false *)
(* or will be false later, which is to say it is false infinitely often.   *)
C18_ScanningTracksScan ==
    /\ [](/\ Running => (is_scanning <=> Outstanding = 1)
          /\ Outstanding <= 1
          /\ last_scan_started <=> is_scanning)
    /\ [][Len(chan') > Len(chan) /\ chan'[Len(chan')].type = "ScanFinished"
            => \E i \in DOMAIN scans :
                  /\ AllWalked(scans[i])
                  /\ Len(Results(scans[i])) = Len(scans[i].child_dirs)
                  /\ chan' = Append(chan,
                               ScanFinished(Results(scans[i]), scans[i].root))
                  /\ scans' = RemoveAt(scans, i)]_vars
    /\ [][Running /\ Len(scans') < Len(scans)
            => Len(chan') > Len(chan) /\ chan'[Len(chan')].type = "ScanFinished"]_vars
    /\ [][RecvStep("ScanFinished") => last_scan_started]_vars
    /\ []<>(~is_scanning \/ ctl = "quit")

\* A second scan has been started after the first one was applied, and its
\* result waits in the channel: the scan is outstanding with no thread left.
C18_Witness ==
    /\ is_scanning
    /\ scans = <<>>
    /\ Cardinality(Pending("ScanFinished")) = 1
    /\ applied # {}

----------------------------------------------------------------------------
(* C19: the path that 'd' captures as the target of the modal, and the     *)
(* path that Enter makes the new cwd, is a child of the directory that is  *)
(* cwd when the key is handled.                                            *)
ChildOf(p, root) == HasParent(p) /\ Parent(p) = root

C19_SelectedIsChildOfRoot ==
    /\ [][KeyStep /\ Pressed(key', "d") /\ mode = Normal /\ entries # <<>>
            => ChildOf(mode'.path, cwd)]_vars
    /\ [][KeyStep /\ Pressed(key', "Enter") /\ mode = Normal /\ entries # <<>>
            => ChildOf(cwd', cwd)]_vars

----------------------------------------------------------------------------
(* C20: while the mode is ConfirmDelete(p) no message taken off the        *)
(* channel and no step of a thread changes the mode; the mode is left only *)
(* for Normal; and the target of the delete thread that 'y' spawns is p,   *)
(* the path of the entry that was selected when 'd' was pressed.           *)
C20_ConfirmTargetImmune ==
    /\ [][mode.tag = "ConfirmDelete" /\ ~KeyStep => mode' = mode]_vars
    /\ [][mode.tag = "ConfirmDelete" /\ mode' # mode => mode' = Normal]_vars
    /\ [][mode = Normal /\ mode' # mode
            => /\ KeyStep /\ Pressed(key', "d")
               /\ entries # <<>>
               /\ mode' = ConfirmDelete(entries[selected + 1].path)]_vars
    /\ [][deletes' # deletes /\ Len(deletes') > Len(deletes)
            => /\ mode.tag = "ConfirmDelete"
               /\ KeyStep /\ Pressed(key', "y")
               /\ Len(deletes') = Len(deletes) + 1
               /\ deletes'[Len(deletes')].target = mode.path]_vars

\* The modal was opened on /h/X, the list has since been replaced by one
\* that does not hold /h/X, and the delete thread spawned by 'y' has /h/X as
\* its target.
C20_Witness ==
    /\ Pressed(key, "y")
    /\ deletes # <<>>
    /\ deletes[Len(deletes)].target = <<"h", "X">>
    /\ deletes[Len(deletes)].pc = "remove"
    /\ entries # <<>>
    /\ <<"h", "X">> \notin Paths(entries)

====
